---- MODULE Spec2Model ----
\* CoreML execution provider: ModelBuilder (model_builder.cc) and the Model
\* handle (model/model.h).
\*
\* Spec        : one ModelBuilder bound to one graph runs Compile(model, path),
\*               one pipeline step per action.
\* SpecPredict : threads take a Model's mutex (scoped) around Model::Predict.
EXTENDS Integers, Sequences, FiniteSets, TLC

VARIABLES
  graph,                 \* graph_viewer_: the graph the builder is bound to
  pc,                    \* position inside Compile/Prepare
  coreml_model_,         \* the in-progress CoreML::Specification::Model
  skipped_initializers_, \* names declared by AddInitializersToSkip
  scalar_outputs_,       \* ModelBuilder::scalar_outputs_
  input_output_info_,    \* ModelBuilder::input_output_info_ (name -> OnnxTensorInfo)
  status,                \* the Status Compile returned (NotReturned while running)
  file,                  \* what is stored at `path`
  model,                 \* the caller's std::unique_ptr<Model>
  trace,                 \* history: the steps executed so far and their results
  mutex_,                \* per Model: the thread that owns Model::mutex_
  thr                    \* per thread: where it is in its guarded Predict call

vars == <<graph, pc, coreml_model_, skipped_initializers_, scalar_outputs_,
          input_output_info_, status, file, model, trace, mutex_, thr>>

compileVars == <<graph, pc, coreml_model_, skipped_initializers_, scalar_outputs_,
                 input_output_info_, status, file, model, trace>>

predictVars == <<mutex_, thr>>

----------------------------------------------------------------------------
\* Bounds

MaxInputs == 2
MaxOutputs == 2
MaxNodes == 2
NumThreads == 3
NumModels == 2

----------------------------------------------------------------------------
\* The graph the builder reads (GraphViewer, NodeArg, TensorShapeProto)

Dim(n) == [has_dim_value |-> TRUE, dim_value |-> n]
DynamicDim == [has_dim_value |-> FALSE, dim_value |-> 0]

NodeArg(hasShape, dims, hasType, elem) ==
  [has_shape |-> hasShape, dims |-> dims, has_elem_type |-> hasType, elem_type |-> elem]

ScalarFloat == NodeArg(TRUE, <<>>, TRUE, "FLOAT")
TensorFloat == NodeArg(TRUE, <<Dim(2), Dim(3)>>, TRUE, "FLOAT")
DynamicFloat == NodeArg(TRUE, <<Dim(2), DynamicDim>>, TRUE, "FLOAT")
NoShapeFloat == NodeArg(FALSE, <<>>, TRUE, "FLOAT")
TensorNoType == NodeArg(TRUE, <<Dim(2)>>, FALSE, "UNDEFINED")
TensorInt64 == NodeArg(TRUE, <<Dim(2)>>, TRUE, "INT64")

TensorNames == {"x", "y", "w"}

\* GetInitializerTensors(): the graph's initializers. An initializer's NodeArg
\* takes shape and type from its TensorProto, so both are concrete.
InitializerNames == {"w"}

ArgChoices(n) ==
  CASE n \in {"x", "y"} -> {ScalarFloat, TensorFloat, DynamicFloat, NoShapeFloat,
                             TensorNoType, TensorInt64}
    [] n = "w" -> {ScalarFloat, TensorFloat, TensorInt64}

RegisteredOps == {"Conv"}
OpTypes == {"Conv", "Foo"}

DistinctSeqs(S, n) ==
  UNION {{s \in [1..k -> S] : \A i, j \in 1..k : i # j => s[i] # s[j]} : k \in 0..n}

OpSeqs(n) == UNION {[1..k -> OpTypes] : k \in 0..n}

Graphs ==
  [inputs : DistinctSeqs(TensorNames, MaxInputs),
   outputs : DistinctSeqs(TensorNames, MaxOutputs),
   nodes : OpSeqs(MaxNodes),
   args : {a \in [TensorNames -> UNION {ArgChoices(n) : n \in TensorNames}] :
             \A n \in TensorNames : a[n] \in ArgChoices(n)},
   initializers : {InitializerNames}]

----------------------------------------------------------------------------
\* Values

OK == [kind |-> "OK", subject |-> "", io |-> ""]
Err(kind, io, subject) == [kind |-> kind, subject |-> subject, io |-> io]
NotReturned == [kind |-> "NotReturned", subject |-> "", io |-> ""]

EmptyInfo == [n \in {} |-> 0]

EmptyCoreMLModel ==
  [specificationversion |-> 0, arrayinputshapemapping |-> "RANK5_ARRAY_MAPPING",
   input |-> <<>>, output |-> <<>>, layers |-> <<>>]

Feature(name, shape, datatype) == [name |-> name, shape |-> shape, datatype |-> datatype]

Path == "model.mlmodel"

NoFile == [written |-> FALSE, complete |-> FALSE, content |-> EmptyCoreMLModel]

\* A null std::unique_ptr<Model>
NoModel ==
  [bound |-> FALSE, path |-> "", scalar_outputs |-> {}, inputs |-> <<>>,
   outputs |-> <<>>, input_output_info |-> EmptyInfo]

NodeNames == <<"n1", "n2", "n3", "n4">>
NodeName(i) == NodeNames[i]

----------------------------------------------------------------------------
\* Model (model.h)

\* Model::Model(path): every container member starts empty
NewModel(path) ==
  [bound |-> TRUE, path |-> path, scalar_outputs |-> {}, inputs |-> <<>>,
   outputs |-> <<>>, input_output_info |-> EmptyInfo]

SetScalarOutputs(m, scalars) == [m EXCEPT !.scalar_outputs = scalars]
SetInputs(m, names) == [m EXCEPT !.inputs = names]
SetOutputs(m, names) == [m EXCEPT !.outputs = names]
SetInputOutputInfo(m, info) == [m EXCEPT !.input_output_info = info]
GetInputs(m) == m.inputs
GetOutputs(m) == m.outputs
IsScalarOutput(m, name) == name \in m.scalar_outputs

----------------------------------------------------------------------------
\* ModelBuilder helpers

NoBuilder == "nullptr"

\* Mutant: the lookup result is tested the wrong way round
GetOpBuilderInverted(op) == IF op \notin RegisteredOps THEN op ELSE NoBuilder

GetOpBuilder(op) == IF op \in RegisteredOps THEN op ELSE NoBuilder

\* Mutant: the returned status is dropped
ReturnIfErrorDropped(st, next) == next

\* ORT_RETURN_IF_ERROR: where control goes after a step returned st
ReturnIfError(st, next) == IF st = OK THEN next ELSE "done"

\* Mutant: the initializer test is left out
IsInitializerNever(g, name) == FALSE

\* Contains(GetInitializerTensors(), input_name)
IsInitializer(g, name) == name \in g.initializers

\* Mutant: a dimension is read without asking whether it has a value
HasDimValueAlways(d) == TRUE

\* dim.has_dim_value()
HasDimValue(d) == d.has_dim_value

\* Mutant: the empty shape gets no special case
IsScalarShapeNever(dims) == FALSE

\* dims.empty(): the tensor is a scalar
IsScalarShape(dims) == dims = <<>>

\* Mutant: the switch accepts another element type
IsSupportedTypeWrong(t) == t = "INT64"

\* the elem_type switch: FLOAT is the only case
IsSupportedType(t) == t = "FLOAT"

\* The loop over dims: the values pushed until a dimension without a value
RECURSIVE ConvertDims(_, _)
ConvertDims(dims, acc) ==
  IF dims = <<>> THEN [ok |-> TRUE, shape |-> acc]
  ELSE IF ~HasDimValue(Head(dims)) THEN [ok |-> FALSE, shape |-> acc]
  ELSE ConvertDims(Tail(dims), Append(acc, Head(dims).dim_value))

\* input_output_info_.emplace(name, info): an existing key is kept
Emplace(info, name, v) ==
  IF name \in DOMAIN info THEN info
  ELSE [n \in DOMAIN info \cup {name} |-> IF n = name THEN v ELSE info[n]]

\* model_description->mutable_output()->Add(), as RegisterModelInputs calls it
AddInputFeature(cm, f) == [cm EXCEPT !.output = Append(@, f)]

\* model_description->mutable_output()->Add(), as RegisterModelOutputs calls it
AddOutputFeature(cm, f) == [cm EXCEPT !.output = Append(@, f)]

\* Mutant: a scalar input keeps its empty shape
InputShapeRaw(dims) == ConvertDims(dims, <<>>).shape

\* The shape vector RegisterModelInputs builds for a shape without dynamic dims
InputShape(dims) == IF IsScalarShape(dims) THEN <<1>> ELSE ConvertDims(dims, <<>>).shape

\* One iteration of the RegisterModelInputs loop on builder state
\* b = [cm, info, st]
RegisterOneInput(g, name, b) ==
  LET arg == g.args[name]
      conv == ConvertDims(arg.dims, <<>>)
      exit(f, st) == [b EXCEPT !.cm = AddInputFeature(b.cm, f), !.st = st]
  IN
  IF IsInitializer(g, name) THEN b
  ELSE IF ~arg.has_shape
    THEN exit(Feature(name, <<>>, "unset"), Err("MissingShape", "input", name))
  ELSE IF ~conv.ok
    THEN exit(Feature(name, <<>>, "unset"), Err("DynamicShape", "input", name))
  ELSE IF ~arg.has_elem_type
    THEN exit(Feature(name, InputShape(arg.dims), "unset"),
              Err("MissingType", "input", name))
  ELSE IF ~IsSupportedType(arg.elem_type)
    THEN exit(Feature(name, InputShape(arg.dims), "unset"),
              Err("UnsupportedType", "input", name))
  ELSE [cm |-> AddInputFeature(b.cm, Feature(name, InputShape(arg.dims), "FLOAT32")),
        info |-> Emplace(b.info, name,
                         [data_type |-> arg.elem_type, shape |-> InputShape(arg.dims)]),
        st |-> OK]

RECURSIVE RegisterInputsFrom(_, _, _)
RegisterInputsFrom(g, i, b) ==
  IF i > Len(g.inputs) THEN b
  ELSE LET b1 == RegisterOneInput(g, g.inputs[i], b)
       IN IF b1.st # OK THEN b1 ELSE RegisterInputsFrom(g, i + 1, b1)

\* One iteration of the RegisterModelOutputs loop on builder state
\* b = [cm, scalars, st]
RegisterOneOutput(g, name, b) ==
  LET arg == g.args[name]
      conv == ConvertDims(arg.dims, <<>>)
      scalar == IsScalarShape(arg.dims)
      scalars == IF scalar THEN b.scalars \cup {name} ELSE b.scalars
      shape == IF scalar THEN <<1>> ELSE conv.shape
      exit(f, sc, st) ==
        [cm |-> AddOutputFeature(b.cm, f), scalars |-> sc, st |-> st]
  IN
  IF ~arg.has_shape
    THEN exit(Feature(name, <<>>, "unset"), b.scalars,
              Err("MissingShape", "output", name))
  ELSE IF ~scalar /\ ~conv.ok
    THEN exit(Feature(name, conv.shape, "unset"), b.scalars,
              Err("DynamicShape", "output", name))
  ELSE IF ~arg.has_elem_type
    THEN exit(Feature(name, shape, "unset"), scalars,
              Err("MissingType", "output", name))
  ELSE IF ~IsSupportedType(arg.elem_type)
    THEN exit(Feature(name, shape, "unset"), scalars,
              Err("UnsupportedType", "output", name))
  ELSE exit(Feature(name, shape, "FLOAT32"), scalars, OK)

RECURSIVE RegisterOutputsFrom(_, _, _)
RegisterOutputsFrom(g, i, b) ==
  IF i > Len(g.outputs) THEN b
  ELSE LET b1 == RegisterOneOutput(g, g.outputs[i], b)
       IN IF b1.st # OK THEN b1 ELSE RegisterOutputsFrom(g, i + 1, b1)

\* The index of the first node AddOperations finds no builder for
\* (Len + 1 when every node has one)
FirstUnsupported(nodes) ==
  LET bad == {i \in 1..Len(nodes) : GetOpBuilder(nodes[i]) = NoBuilder}
  IN IF bad = {} THEN Len(nodes) + 1 ELSE CHOOSE i \in bad : \A j \in bad : i <= j

\* AddLayer, once for each of the nodes 1..k
LayersUpTo(cm, k) == [cm EXCEPT !.layers = @ \o [i \in 1..k |-> NodeName(i)]]

Record(step, st) == Append(trace, [step |-> step, ok |-> st = OK])

----------------------------------------------------------------------------
\* ModelBuilder::ModelBuilder(graph_viewer), and the caller's null model pointer

Threads == 1..NumThreads
Models == 1..NumModels
NoThread == 0

ThreadIdle == [at |-> "idle", m |-> 0, result |-> "none"]

InitPredictVars ==
  /\ mutex_ = [m \in Models |-> NoThread]
  /\ thr = [t \in Threads |-> ThreadIdle]

Init ==
  /\ graph \in Graphs
  /\ pc = "initialize"
  /\ coreml_model_ = EmptyCoreMLModel
  /\ skipped_initializers_ = {}
  /\ scalar_outputs_ = {}
  /\ input_output_info_ = EmptyInfo
  /\ status = NotReturned
  /\ file = NoFile
  /\ model = NoModel
  /\ trace = <<>>
  /\ InitPredictVars

----------------------------------------------------------------------------
\* ModelBuilder::Prepare, step by step

\* Prepare: "initialize CoreML model"
PrepareInitialize ==
  /\ pc = "initialize"
  /\ coreml_model_' = [coreml_model_ EXCEPT !.specificationversion = 4,
                         !.arrayinputshapemapping = "EXACT_ARRAY_MAPPING"]
  /\ trace' = Record("initialize", OK)
  /\ pc' = "preprocess_initializers"
  /\ UNCHANGED <<graph, skipped_initializers_, scalar_outputs_, input_output_info_,
                 status, file, model, mutex_, thr>>

\* What the translators of the graph's nodes may declare as consumed:
\* AddInitializersToSkip names initializers, and only a node with a builder is asked
SkipChoices(g) ==
  IF \E i \in 1..Len(g.nodes) : GetOpBuilder(g.nodes[i]) # NoBuilder
  THEN SUBSET g.initializers
  ELSE {{}}

PreprocessInitializers ==
  /\ pc = "preprocess_initializers"
  /\ \E skip \in SkipChoices(graph) : skipped_initializers_' = skip
  /\ trace' = Record("preprocess_initializers", OK)
  /\ pc' = "register_initializers"
  /\ UNCHANGED <<graph, coreml_model_, scalar_outputs_, input_output_info_,
                 status, file, model, mutex_, thr>>

RegisterInitializers ==
  /\ pc = "register_initializers"
  /\ trace' = Record("register_initializers", OK)
  /\ pc' = ReturnIfError(OK, "register_inputs")
  /\ UNCHANGED <<graph, coreml_model_, skipped_initializers_, scalar_outputs_,
                 input_output_info_, status, file, model, mutex_, thr>>

RegisterModelInputs ==
  /\ pc = "register_inputs"
  /\ LET r == RegisterInputsFrom(graph, 1,
                [cm |-> coreml_model_, info |-> input_output_info_, st |-> OK])
     IN /\ coreml_model_' = r.cm
        /\ input_output_info_' = r.info
        /\ trace' = Record("register_inputs", r.st)
        /\ pc' = ReturnIfError(r.st, "add_operations")
        /\ status' = IF r.st = OK THEN status ELSE r.st
  /\ UNCHANGED <<graph, skipped_initializers_, scalar_outputs_, file, model,
                 mutex_, thr>>

\* AddOperations: the nodes before the first one without a builder are emitted in
\* order; a translator's AddToModelBuilder may fail (failAt), which ends the loop
AddOperations ==
  /\ pc = "add_operations"
  /\ LET first == FirstUnsupported(graph.nodes)
     IN \E failAt \in 0..(first - 1) :
          LET st == IF failAt # 0
                      THEN Err("EmissionFailure", graph.nodes[failAt], NodeName(failAt))
                    ELSE IF first <= Len(graph.nodes)
                      THEN Err("UnsupportedOperator", graph.nodes[first], NodeName(first))
                    ELSE OK
              emitted == IF failAt # 0 THEN failAt - 1 ELSE first - 1
          IN /\ coreml_model_' = LayersUpTo(coreml_model_, emitted)
             /\ trace' = Record("add_operations", st)
             /\ pc' = ReturnIfError(st, "register_outputs")
             /\ status' = IF st = OK THEN status ELSE st
  /\ UNCHANGED <<graph, skipped_initializers_, scalar_outputs_, input_output_info_,
                 file, model, mutex_, thr>>

RegisterModelOutputs ==
  /\ pc = "register_outputs"
  /\ LET r == RegisterOutputsFrom(graph, 1,
                [cm |-> coreml_model_, scalars |-> scalar_outputs_, st |-> OK])
     IN /\ coreml_model_' = r.cm
        /\ scalar_outputs_' = r.scalars
        /\ trace' = Record("register_outputs", r.st)
        /\ pc' = ReturnIfError(r.st, "serialize")
        /\ status' = IF r.st = OK THEN status ELSE r.st
  /\ UNCHANGED <<graph, skipped_initializers_, input_output_info_, file, model,
                 mutex_, thr>>

\* SaveCoreMLModel: the stream may fail to open (nothing stored), the write may
\* fail after the file was created (a partial file), or the model is stored
SaveCoreMLModel ==
  /\ pc = "serialize"
  /\ \E outcome \in {"stored", "open_failed", "write_failed"} :
       LET st == IF outcome = "stored" THEN OK
                 ELSE Err("SerializationFailure", "", Path)
       IN /\ file' = CASE outcome = "stored" ->
                            [written |-> TRUE, complete |-> TRUE, content |-> coreml_model_]
                       [] outcome = "write_failed" ->
                            [written |-> TRUE, complete |-> FALSE,
                             content |-> EmptyCoreMLModel]
                       [] outcome = "open_failed" -> file
          /\ trace' = Record("serialize", st)
          /\ pc' = ReturnIfError(st, "produce_model")
          /\ status' = IF st = OK THEN status ELSE st
  /\ UNCHANGED <<graph, coreml_model_, skipped_initializers_, scalar_outputs_,
                 input_output_info_, model, mutex_, thr>>

\* Compile, after Prepare and SaveCoreMLModel: make_unique<Model>(path),
\* SetScalarOutputs(std::move(scalar_outputs_)), return OK
ProduceModel ==
  /\ pc = "produce_model"
  /\ model' = SetScalarOutputs(NewModel(Path), scalar_outputs_)
  /\ scalar_outputs_' = {}
  /\ trace' = Record("produce_model", OK)
  /\ status' = OK
  /\ pc' = "done"
  /\ UNCHANGED <<graph, coreml_model_, skipped_initializers_, input_output_info_,
                 file, mutex_, thr>>

Next ==
  \/ PrepareInitialize
  \/ PreprocessInitializers
  \/ RegisterInitializers
  \/ RegisterModelInputs
  \/ AddOperations
  \/ RegisterModelOutputs
  \/ SaveCoreMLModel
  \/ ProduceModel

Spec == Init /\ [][Next]_vars

----------------------------------------------------------------------------
\* Guarded inference: a caller takes the Model's mutex for the scope of Predict

\* Mutant: one mutex shared by every Model
GetMutexShared(m) == 1

\* Model::GetMutex(): the mutex that is a member of this Model
GetMutex(m) == m

InCall(t) == thr[t].at \in {"locked", "predicting", "returned"}

\* The caller decides to run inference on Model m
Request(t, m) ==
  /\ thr[t].at = "idle"
  /\ thr' = [thr EXCEPT ![t] = [at |-> "waiting", m |-> m, result |-> "none"]]
  /\ UNCHANGED <<mutex_, compileVars>>

\* std::unique_lock<OrtMutex> lock(model->GetMutex()): returns once the mutex is free
Lock(t) ==
  /\ thr[t].at = "waiting"
  /\ mutex_[GetMutex(thr[t].m)] = NoThread
  /\ mutex_' = [mutex_ EXCEPT ![GetMutex(thr[t].m)] = t]
  /\ thr' = [thr EXCEPT ![t].at = "locked"]
  /\ UNCHANGED compileVars

\* Model::Predict enters the runtime's inference call
PredictBegin(t) ==
  /\ thr[t].at = "locked"
  /\ thr' = [thr EXCEPT ![t].at = "predicting"]
  /\ UNCHANGED <<mutex_, compileVars>>

\* The runtime's inference call returns, with success or with an error
PredictEnd(t) ==
  /\ thr[t].at = "predicting"
  /\ \E r \in {"ok", "error"} :
       thr' = [thr EXCEPT ![t].at = "returned", ![t].result = r]
  /\ UNCHANGED <<mutex_, compileVars>>

\* The scope of the lock ends (the same on the success and the error path)
Unlock(t) ==
  /\ thr[t].at = "returned"
  /\ mutex_' = [mutex_ EXCEPT ![GetMutex(thr[t].m)] = NoThread]
  /\ thr' = [thr EXCEPT ![t] = ThreadIdle]
  /\ UNCHANGED compileVars

\* The models the threads run were compiled before: the builder is finished
InitPredict ==
  /\ graph = [inputs |-> <<"x">>, outputs |-> <<"y">>, nodes |-> <<"Conv">>,
              args |-> [n \in TensorNames |-> TensorFloat],
              initializers |-> InitializerNames]
  /\ pc = "done"
  /\ coreml_model_ = EmptyCoreMLModel
  /\ skipped_initializers_ = {}
  /\ scalar_outputs_ = {}
  /\ input_output_info_ = EmptyInfo
  /\ status = OK
  /\ file = NoFile
  /\ model = NewModel(Path)
  /\ trace = <<>>
  /\ InitPredictVars

NextPredict ==
  \/ \E t \in Threads, m \in Models : Request(t, m)
  \/ \E t \in Threads : Lock(t)
  \/ \E t \in Threads : PredictBegin(t)
  \/ \E t \in Threads : PredictEnd(t)
  \/ \E t \in Threads : Unlock(t)

SpecPredict == InitPredict /\ [][NextPredict]_vars

----------------------------------------------------------------------------
\* Vocabulary of the properties, stated on the graph alone

Done == pc = "done"
Succeeded == Done /\ status = OK

Range(seq) == {seq[i] : i \in 1..Len(seq)}
NamesOf(features) == [i \in 1..Len(features) |-> features[i].name]

Registered(i) == graph.nodes[i] \in RegisteredOps
UnregisteredNodes == {i \in 1..Len(graph.nodes) : ~Registered(i)}

\* The declared inputs that are not initializers, in declared order
DeclaredInputs == SelectSeq(graph.inputs, LAMBDA n : n \notin graph.initializers)

IOTensors == Range(graph.inputs) \cup Range(graph.outputs)
CheckedTensors == Range(DeclaredInputs) \cup Range(graph.outputs)

Concrete(n) ==
  /\ graph.args[n].has_shape
  /\ \A i \in 1..Len(graph.args[n].dims) : graph.args[n].dims[i].has_dim_value
HasDynamicDim(n) ==
  /\ graph.args[n].has_shape
  /\ \E i \in 1..Len(graph.args[n].dims) : ~graph.args[n].dims[i].has_dim_value
IsFloat(n) == graph.args[n].has_elem_type /\ graph.args[n].elem_type = "FLOAT"
RankZero(n) == graph.args[n].has_shape /\ graph.args[n].dims = <<>>
DeclaredDims(n) == [i \in 1..Len(graph.args[n].dims) |-> graph.args[n].dims[i].dim_value]

Ran(step) == \E i \in 1..Len(trace) : trace[i].step = step
RanOk(step) == \E i \in 1..Len(trace) : trace[i].step = step /\ trace[i].ok

Handle == model.bound /\ model.path = Path
Artifact == file.written /\ file.complete /\ file.content = coreml_model_

----------------------------------------------------------------------------
\* C1

AllSupported ==
  /\ UnregisteredNodes = {}
  /\ \A n \in IOTensors : Concrete(n) /\ IsFloat(n)

\* C1 as stated: whenever every node has a translator and every graph input and
\* output is concrete and float, Compile returns success with the artifact written
\* and a Model bound to the path.
C1_AsStated == (Done /\ AllSupported) => (status = OK /\ Artifact /\ Handle)

\* C1, amended: for such a graph Compile returns success with the artifact written
\* and a Model bound to the path, unless a translator's emit step or the
\* serialization fails, and then it returns that error.
C1_CompileSucceeds ==
  (Done /\ AllSupported) =>
     \/ status = OK /\ Artifact /\ Handle
     \/ status.kind \in {"EmissionFailure", "SerializationFailure"}

C1_Witness ==
  /\ Succeeded /\ AllSupported /\ Artifact /\ Handle
  /\ graph.nodes # <<>> /\ DeclaredInputs # <<>> /\ graph.outputs # <<>>

----------------------------------------------------------------------------
\* C2

\* C2: after a successful Compile the Model handle answers GetInputs with the
\* declared non-initializer inputs in order, GetOutputs with the declared outputs
\* in order, and holds the descriptor table the builder recorded.
C2_HandleCarriesMetadata ==
  Succeeded =>
    /\ GetInputs(model) = DeclaredInputs
    /\ GetOutputs(model) = graph.outputs
    /\ model.input_output_info = input_output_info_

----------------------------------------------------------------------------
\* C3

\* C3: once the inputs are registered, every declared non-initializer input has
\* its descriptor in the table and exactly one entry, in order, in the INPUT
\* feature list; after Prepare the output feature list is exactly the outputs.
C3_InputFeatures ==
  /\ RanOk("register_inputs") =>
       /\ DOMAIN input_output_info_ = Range(DeclaredInputs)
       /\ NamesOf(coreml_model_.input) = DeclaredInputs
  /\ RanOk("register_outputs") => NamesOf(coreml_model_.output) = graph.outputs

----------------------------------------------------------------------------
\* C4

FirstUnregistered == CHOOSE i \in UnregisteredNodes : \A j \in UnregisteredNodes : i <= j

ReportsFirstUnregistered ==
  status = Err("UnsupportedOperator", graph.nodes[FirstUnregistered],
               NodeName(FirstUnregistered))

\* C4 as stated: a graph with a node without translator makes Compile fail with
\* the unsupported-operator error naming the first such node.
C4_AsStated == (Done /\ UnregisteredNodes # {}) => ReportsFirstUnregistered

\* C4, amended: such a graph makes Compile fail and produce no Model; the error is
\* the unsupported-operator error naming the first such node in topological order
\* unless registering the graph inputs, or the emit step of an earlier node,
\* failed first.
C4_UnsupportedOperator ==
  (Done /\ UnregisteredNodes # {}) =>
     /\ status # OK /\ model = NoModel
     /\ \/ ReportsFirstUnregistered
        \/ ~RanOk("register_inputs")
        \/ /\ status.kind = "EmissionFailure"
           /\ \E i \in 1..(FirstUnregistered - 1) : status.subject = NodeName(i)

C4_Witness ==
  /\ Done /\ Cardinality(UnregisteredNodes) >= 2
  /\ ReportsFirstUnregistered
  /\ DeclaredInputs # <<>>

----------------------------------------------------------------------------
\* C5

StepOrder ==
  <<"initialize", "preprocess_initializers", "register_initializers",
    "register_inputs", "add_operations", "register_outputs", "serialize",
    "produce_model">>

Failed == trace # <<>> /\ ~trace[Len(trace)].ok

\* C5: the steps run in the fixed order; no step runs after one that failed;
\* a failure ends Compile with that error, with no Model produced, and with
\* nothing written when the failing step comes before serialize.
C5_FailFast ==
  /\ Len(trace) <= Len(StepOrder)
  /\ \A i \in 1..Len(trace) : trace[i].step = StepOrder[i]
  /\ \A i \in 1..(Len(trace) - 1) : trace[i].ok
  /\ Failed =>
       /\ Done
       /\ status \notin {OK, NotReturned}
       /\ model = NoModel
       /\ ~Ran("serialize") => file = NoFile
  /\ (status \notin {OK, NotReturned}) => Failed
  /\ Succeeded => Len(trace) = Len(StepOrder)

C5_Witness ==
  /\ Failed /\ Done
  /\ trace[Len(trace)].step = "register_outputs"
  /\ status.kind = "UnsupportedType"
  /\ file = NoFile /\ model = NoModel

----------------------------------------------------------------------------
\* C6

----------------------------------------------------------------------------
\* C7

EntriesOf(features, n) == {i \in 1..Len(features) : features[i].name = n}

\* C7: after a successful Compile every rank-0 output is a scalar output of the
\* Model and has shape [1] in the serialized output features; every other output
\* is not a scalar output and keeps its declared dimensions.
C7_ScalarOutputs ==
  Succeeded =>
    \A n \in Range(graph.outputs) :
      /\ EntriesOf(file.content.output, n) # {}
      /\ IsScalarOutput(model, n) <=> RankZero(n)
      /\ \A i \in EntriesOf(file.content.output, n) :
           file.content.output[i].shape =
             IF RankZero(n) THEN <<1>> ELSE DeclaredDims(n)

C7_Witness ==
  /\ Succeeded
  /\ \E n \in Range(graph.outputs) : RankZero(n) /\ IsScalarOutput(model, n)
  /\ \E n \in Range(graph.outputs) : ~RankZero(n) /\ ~IsScalarOutput(model, n)

----------------------------------------------------------------------------
\* C8

ScalarInputsRecorded ==
  RanOk("register_inputs") =>
    \A n \in Range(DeclaredInputs) :
      RankZero(n) => /\ n \in DOMAIN input_output_info_
                     /\ input_output_info_[n].shape = <<1>>

InputsLeaveScalarSet == (pc = "add_operations") => scalar_outputs_ = {}

\* C8 as stated: a rank-0 graph input is recorded with shape [1], registering the
\* inputs inserts nothing into the scalar-output set, and after any compile no
\* rank-0 graph input name is reported by IsScalarOutput.
C8_AsStated ==
  /\ ScalarInputsRecorded
  /\ InputsLeaveScalarSet
  /\ \A n \in Range(graph.inputs) : RankZero(n) => ~IsScalarOutput(model, n)

\* C8, amended: a rank-0 graph input that is not an initializer is recorded with
\* shape [1], registering the inputs inserts nothing into the scalar-output set,
\* and after any compile a rank-0 graph input name is reported by IsScalarOutput
\* only if the same tensor is also a graph output.
C8_ScalarInputs ==
  /\ ScalarInputsRecorded
  /\ InputsLeaveScalarSet
  /\ \A n \in Range(graph.inputs) :
       (RankZero(n) /\ n \notin Range(graph.outputs)) => ~IsScalarOutput(model, n)

C8_Witness ==
  /\ Succeeded
  /\ \E n \in Range(DeclaredInputs) :
       /\ RankZero(n) /\ n \notin Range(graph.outputs)
       /\ input_output_info_[n].shape = <<1>>
       /\ ~IsScalarOutput(model, n)
  /\ \E n \in Range(graph.outputs) : IsScalarOutput(model, n)

----------------------------------------------------------------------------
\* C9

\* C9: an initializer, declared as consumed or not, never gets a feature entry
\* or a descriptor from the input-registration step, even when it is a declared
\* graph input; the outputs are registered whether or not they are initializers.
C9_InitializersExcluded ==
  /\ skipped_initializers_ \subseteq graph.initializers
  /\ \A n \in graph.initializers :
       /\ n \notin Range(NamesOf(coreml_model_.input))
       /\ n \notin DOMAIN input_output_info_
       /\ (pc = "add_operations") => n \notin Range(NamesOf(coreml_model_.output))
  /\ RanOk("register_outputs") =>
       Range(graph.outputs) \subseteq Range(NamesOf(coreml_model_.output))

C9_Witness ==
  /\ Succeeded
  /\ \E n \in skipped_initializers_ :
       /\ n \in Range(graph.inputs)
       /\ n \in Range(graph.outputs)
       /\ n \in Range(NamesOf(file.content.output))
       /\ n \notin DOMAIN input_output_info_
  /\ DeclaredInputs # <<>>

----------------------------------------------------------------------------
\* C10

Predicting(t) == thr[t].at = "predicting"

\* C10: two threads never run the inference call of the same Model at once; a
\* caller holds the Model's mutex from before the call until it has returned,
\* with success or with an error, and holds none otherwise; a caller waiting
\* for a Model is held up only by a caller of that same Model.
C10_OnePredictPerModel ==
  /\ \A t, u \in Threads :
       (t # u /\ Predicting(t) /\ Predicting(u)) => thr[t].m # thr[u].m
  /\ \A t \in Threads : InCall(t) <=> (\E m \in Models : mutex_[m] = t)
  /\ \A t \in Threads : InCall(t) => mutex_[thr[t].m] = t
  /\ \A t \in Threads :
       (thr[t].at = "waiting" /\ ~ENABLED Lock(t)) =>
          \E u \in Threads : u # t /\ InCall(u) /\ thr[u].m = thr[t].m

C10_Witness ==
  \E t, u, v \in Threads :
    /\ t # u /\ Predicting(t) /\ Predicting(u) /\ thr[t].m # thr[u].m
    /\ thr[v].at = "waiting" /\ thr[v].m = thr[t].m /\ ~ENABLED Lock(v)

====
